---- MODULE Spec2Model ----
(***************************************************************************)
(* Model of the interactive Mandelbrot viewer: the double-click detector   *)
(* (click_handler.rs), the viewport settings (mandelbrot_settings.rs) and  *)
(* the event loop, click callbacks, coordinate mapping and frame renderer  *)
(* (main.rs).                                                              *)
(*                                                                         *)
(* Numbers.  The program computes in f32.  The model computes in exact     *)
(* rationals <<numerator, denominator>> (lowest terms, denominator > 0).   *)
(* Time is the reading of Instant::now() in milliseconds.                  *)
(***************************************************************************)
EXTENDS Integers, Sequences, FiniteSets, TLC

VARIABLES
    clock,                  \* what Instant::now() returns
    left_click_handler,     \* DoubleClickHandler of MouseButton::Left
    right_click_handler,    \* DoubleClickHandler of MouseButton::Right
    settings,               \* the MandelbrotSettings behind Rc<RefCell<..>>
    mouse_pos,              \* the [f64; 2] behind Rc<RefCell<..>>
    requires_recalculate,   \* the dirty flag of main
    image,                  \* the texture that draw_2d paints
    event,                  \* the event bound by `while let Some(event)`
    pc,                     \* position of main
    ret,                    \* which call of generate_mandelbrot_buffer runs
    img,                    \* the ImageBuffer under construction
    scale,                  \* the values generate_mandelbrot_buffer caches
    log,                    \* history: the mouse presses pulled so far
    nevents,                \* history: number of events pulled
    turn_renders,           \* history: renders begun in this loop turn
    workers,                \* row-render runs: the row each worker holds
    iters,                  \* row-render runs: escape count of every pixel
    writes,                 \* row-render runs: times each row slice was filled
    zoom32,                 \* gesture runs: settings.zoom as the f32 it is
    trail                   \* gesture runs: the last two gestures

vars == <<clock, left_click_handler, right_click_handler, settings, mouse_pos,
          requires_recalculate, image, event, pc, ret, img, scale, log,
          nevents, turn_renders, workers, iters, writes, zoom32, trail>>

(***************************************************************************)
(* Bounds of the model.                                                    *)
(***************************************************************************)
MaxEvents == 4          \* events pulled in one run of the event loop
ModelRows == 2          \* rows of the 480-row frame the event-loop run follows
MaxWorkers == 2         \* row workers of a row-render run

\* Elapsed time between two readings of the clock, in ms.
Gaps == {100, 500}
\* Cursor positions reported by mouse_cursor_args.
MousePositions == {<<480, 360>>, <<160, 240>>, <<320, 240>>}

(***************************************************************************)
(* Exact rational arithmetic standing for f32 arithmetic.                  *)
(***************************************************************************)
Abs(n) == IF n < 0 THEN -n ELSE n

\* Arguments are bound through singleton sets, so that each is evaluated
\* once wherever the operator is applied (inside ENABLED too).
RECURSIVE GCD(_, _)
GCD(a, b) ==
    IF b = 0 THEN a
    ELSE CHOOSE g \in {GCD(y, x % y) : x \in {a}, y \in {b}} : TRUE

Rat(n, d) ==
    CHOOSE r \in UNION {LET s == IF y < 0 THEN -1 ELSE 1
                        IN  {<<(s * x) \div g, (s * y) \div g>> :
                                g \in {GCD(Abs(x), Abs(y))}} :
                        x \in {n}, y \in {d}} : TRUE

FromInt(n) == <<n, 1>>

RAdd(a, b) ==
    CHOOSE r \in {Rat(x[1] * (y[2] \div g) + y[1] * (x[2] \div g),
                      x[2] * (y[2] \div g)) :
                  g \in {GCD(a[2], b[2])}, x \in {a}, y \in {b}} : TRUE

RNeg(a) == <<-a[1], a[2]>>
RSub(a, b) == RAdd(a, RNeg(b))

RMul(a, b) ==
    CHOOSE r \in {Rat((x[1] \div g1) * (y[1] \div g2),
                      (x[2] \div g2) * (y[2] \div g1)) :
                  x \in {a}, y \in {b},
                  g1 \in {GCD(Abs(a[1]), b[2])},
                  g2 \in {GCD(Abs(b[1]), a[2])}} : TRUE

RDiv(a, b) == RMul(a, Rat(b[2], b[1]))

RLt(a, b) == RSub(a, b)[1] < 0
RLeq(a, b) == RSub(a, b)[1] <= 0

(***************************************************************************)
(* f32 values as they are: m * 2^e with 2^23 <= m < 2^24.  The product or  *)
(* quotient of an f32 and a ratio r of two small integers that is itself   *)
(* an f32 (zoom_exp = 1.5 = 3/2) is the exact rational rounded once, to    *)
(* nearest, ties to even.                                                  *)
(***************************************************************************)
RECURSIVE TwoTo(_)
TwoTo(k) == IF k = 0 THEN 1 ELSE 2 * TwoTo(k - 1)

F32One == [m |-> TwoTo(23), e |-> -23]

\* The f32 nearest to (num / den) * 2^e.
RECURSIVE F32Round(_, _, _)
F32Round(num, den, e) ==
    IF num >= den * TwoTo(24) THEN F32Round(num, den * 2, e + 1)
    ELSE IF num < den * TwoTo(23) THEN F32Round(num * 2, den, e - 1)
    ELSE LET q == num \div den
             r == num % den
             up == 2 * r > den \/ (2 * r = den /\ q % 2 = 1)
             m == IF up THEN q + 1 ELSE q
         IN  IF m = TwoTo(24)
             THEN [m |-> TwoTo(23), e |-> e + 1]
             ELSE [m |-> m, e |-> e]

F32Mul(f, r) == F32Round(f.m * r[1], r[2], f.e)
F32Div(f, r) == F32Round(f.m * r[2], r[1], f.e)

(***************************************************************************)
(* mandelbrot_settings.rs and the constants of main.                       *)
(***************************************************************************)
WIDTH == 640
HEIGHT == 480
DefaultTimeout == 500

InitialSettings ==
    [width |-> WIDTH, height |-> HEIGHT, max_iterations |-> 300,
     zoom |-> FromInt(1), zoom_exp |-> Rat(3, 2),
     offset_x |-> FromInt(0), offset_y |-> FromInt(0), gamma |-> Rat(22, 100)]

(***************************************************************************)
(* main.rs: mouse_to_screen and the two click callbacks.                   *)
(***************************************************************************)
\* Variant: the pixel is not taken relative to the middle of the window.
mouse_to_screen_from_corner(mp, s) ==
    LET x == FromInt(mp[1])
        y == FromInt(mp[2])
        w == FromInt(s.width)
        h == FromInt(s.height)
        four == FromInt(4)
    IN  << RAdd(RDiv(RMul(RDiv(x, w), four), s.zoom), s.offset_x),
           RAdd(RDiv(RMul(RDiv(y, h), four), s.zoom), s.offset_y) >>

\* Variant: the y coordinate is scaled by the width.
mouse_to_screen_square(mp, s) ==
    LET x == FromInt(mp[1])
        y == FromInt(mp[2])
        w == FromInt(s.width)
        h == FromInt(s.height)
        two == FromInt(2)
        four == FromInt(4)
    IN  << RAdd(RDiv(RMul(RDiv(RSub(x, RDiv(w, two)), w), four), s.zoom),
                s.offset_x),
           RAdd(RDiv(RMul(RDiv(RSub(y, RDiv(h, two)), w), four), s.zoom),
                s.offset_y) >>

mouse_to_screen(mp, s) ==
    LET x == FromInt(mp[1])
        y == FromInt(mp[2])
        w == FromInt(s.width)
        h == FromInt(s.height)
        two == FromInt(2)
        four == FromInt(4)
    IN  << RAdd(RDiv(RMul(RDiv(RSub(x, RDiv(w, two)), w), four), s.zoom),
                s.offset_x),
           RAdd(RDiv(RMul(RDiv(RSub(y, RDiv(h, two)), h), four), s.zoom),
                s.offset_y) >>

\* Variant: the zoom is stepped before the mouse pixel is mapped.
left_click_callback_zoom_first(s, mp) ==
    LET z == [s EXCEPT !.zoom = RMul(s.zoom, s.zoom_exp)]
        p == mouse_to_screen(mp, z)
    IN  [z EXCEPT !.offset_x = p[1], !.offset_y = p[2]]

left_click_callback(s, mp) ==
    LET p == mouse_to_screen(mp, s)
        s1 == [s EXCEPT !.offset_x = p[1]]
        s2 == [s1 EXCEPT !.offset_y = p[2]]
    IN  [s2 EXCEPT !.zoom = RMul(s2.zoom, s2.zoom_exp)]

right_click_callback(s, mp) ==
    LET p == mouse_to_screen(mp, s)
        s1 == [s EXCEPT !.offset_x = p[1]]
        s2 == [s1 EXCEPT !.offset_y = p[2]]
    IN  [s2 EXCEPT !.zoom = RDiv(s2.zoom, s2.zoom_exp)]

\* (self.handler)(): the boxed closure held by a DoubleClickHandler.
CallHandler(h, s, mp) ==
    IF h.handler = "left_click_callback"
    THEN left_click_callback(s, mp)
    ELSE right_click_callback(s, mp)

(***************************************************************************)
(* click_handler.rs.                                                       *)
(***************************************************************************)
NewDoubleClickHandler(handler, button, now) ==
    [last_click |-> now, click_timeout |-> DefaultTimeout,
     handler |-> handler, button |-> button]

\* Variant: a gap equal to the timeout counts as a double-click.
is_double_click_inclusive(h, now) ==
    [is_double_click |-> now - h.last_click <= h.click_timeout,
     handler |-> [h EXCEPT !.last_click = now]]

\* Variant: a recognized double-click closes the window, the next press
\* starts a fresh one.
is_double_click_rearm(h, now) ==
    LET d == now - h.last_click < h.click_timeout
    IN  [is_double_click |-> d,
         handler |-> [h EXCEPT !.last_click =
                          IF d THEN now - h.click_timeout ELSE now]]

\* Returns the verdict and the handler with last_click overwritten.
is_double_click(h, now) ==
    [is_double_click |-> now - h.last_click < h.click_timeout,
     handler |-> [h EXCEPT !.last_click = now]]

\* Variant: the pressed button is not compared with the handler's button.
handle_if_button_pressed_any_button(h, ev, now, s, mp) ==
    IF ev.kind = "press"
    THEN LET r == is_double_click(h, now)
         IN  IF r.is_double_click
             THEN [handler |-> r.handler, settings |-> CallHandler(h, s, mp),
                   result |-> TRUE]
             ELSE [handler |-> r.handler, settings |-> s, result |-> FALSE]
    ELSE [handler |-> h, settings |-> s, result |-> FALSE]

\* Variant: the timer is consulted before the button is compared
\* (self.is_double_click() && button == self.button).
handle_if_button_pressed_timer_first(h, ev, now, s, mp) ==
    IF ev.kind = "press"
    THEN LET r == is_double_click(h, now)
         IN  IF r.is_double_click /\ ev.button = h.button
             THEN [handler |-> r.handler, settings |-> CallHandler(h, s, mp),
                   result |-> TRUE]
             ELSE [handler |-> r.handler, settings |-> s, result |-> FALSE]
    ELSE [handler |-> h, settings |-> s, result |-> FALSE]

\* Returns the handler after the call, the settings after the call (the
\* closure mutates them) and the boolean the method returns.
handle_if_button_pressed(h, ev, now, s, mp) ==
    IF ev.kind = "press" /\ ev.button = h.button
    THEN LET r == is_double_click(h, now)
         IN  IF r.is_double_click
             THEN [handler |-> r.handler, settings |-> CallHandler(h, s, mp),
                   result |-> TRUE]
             ELSE [handler |-> r.handler, settings |-> s, result |-> FALSE]
    ELSE [handler |-> h, settings |-> s, result |-> FALSE]

(***************************************************************************)
(* main.rs: generate_mandelbrot_buffer as the event loop sees it.  The     *)
(* event-loop run follows the rows in Rows; a row of the buffer is         *)
(* recorded by the values its pixels are computed from.                    *)
(***************************************************************************)
Rows == 0 .. (ModelRows - 1)
\* A row of the zeroed buffer ImageBuffer::new returns: nothing is recorded
\* for it (<<0, 0>> is the numerator and denominator of no rational).
Blank == [yi |-> <<0, 0>>, width_scale |-> <<0, 0>>, offset_x |-> <<0, 0>>]
NoScale == [width_scale |-> <<0, 0>>, height_scale |-> <<0, 0>>,
            half_width |-> <<0, 0>>, half_height |-> <<0, 0>>]

\* The values cached before the parallel iteration.
CacheScale(s) ==
    LET width_64 == FromInt(s.width)
        height_64 == FromInt(s.height)
    IN  [width_scale |-> RDiv(RDiv(FromInt(4), s.zoom), width_64),
         height_scale |-> RDiv(RDiv(FromInt(4), s.zoom), height_64),
         half_width |-> RDiv(width_64, FromInt(2)),
         half_height |-> RDiv(height_64, FromInt(2))]

\* What the closure of for_each reads for row y: the cached scales and the
\* offsets of the borrowed settings.
RowOf(sc, s, y) ==
    [yi |-> RAdd(RMul(RSub(FromInt(y), sc.half_height), sc.height_scale),
                 s.offset_y),
     width_scale |-> sc.width_scale,
     offset_x |-> s.offset_x]

\* The frame of a viewport: every row computed from the same settings.
FrameOf(s) == [y \in Rows |-> RowOf(CacheScale(s), s, y)]

(***************************************************************************)
(* The events window.next() yields.                                        *)
(***************************************************************************)
NoEvent == [kind |-> "none"]
Events ==
    {[kind |-> "cursor", pos |-> p] : p \in MousePositions}
    \cup {[kind |-> "press", button |-> b] : b \in {"Left", "Right", "Middle"}}
    \cup {[kind |-> "other"]}

(***************************************************************************)
(* main: state after the handlers and the flag are constructed.            *)
(***************************************************************************)
Init ==
    /\ clock = 0
    /\ left_click_handler =
           NewDoubleClickHandler("left_click_callback", "Left", 0)
    /\ right_click_handler =
           NewDoubleClickHandler("right_click_callback", "Right", 0)
    /\ settings = InitialSettings
    /\ mouse_pos = <<0, 0>>
    /\ requires_recalculate = FALSE
    /\ image = [y \in Rows |-> Blank]    \* no texture yet
    /\ event = NoEvent
    /\ pc = "start"
    /\ ret = "none"
    /\ img = [y \in Rows |-> Blank]
    /\ scale = NoScale
    /\ log = <<>>
    /\ nevents = 0
    /\ turn_renders = 0
    /\ workers = <<>>
    /\ iters = <<>>
    /\ writes = <<>>
    /\ zoom32 = F32One
    /\ trail = <<>>

\* generate_mandelbrot_buffer up to the parallel iteration.
BeginRender(caller) ==
    /\ img' = [y \in Rows |-> Blank]
    /\ scale' = CacheScale(settings)
    /\ ret' = caller
    /\ pc' = "render"
    /\ turn_renders' = turn_renders + 1

\* main.rs 79-80: the call that produces the initial texture.
InitialRender ==
    /\ pc = "start"
    /\ BeginRender("initial")
    /\ UNCHANGED <<clock, left_click_handler, right_click_handler, settings,
                   mouse_pos, requires_recalculate, image, event, log,
                   nevents, workers, iters,
                   writes, zoom32, trail>>

\* One row of the parallel iteration; rows are taken in any order.
RenderRow(y) ==
    /\ pc = "render"
    /\ img[y] = Blank
    /\ img' = [img EXCEPT ![y] = RowOf(scale, settings, y)]
    /\ UNCHANGED <<clock, left_click_handler, right_click_handler, settings,
                   mouse_pos, requires_recalculate, image, event, pc, ret,
                   scale, log, nevents, turn_renders, workers, iters,
                   writes, zoom32, trail>>

\* Variant: the call returns without waiting for the rows still in progress.
RenderReturn_without_join ==
    /\ pc = "render"
    /\ image' = img
    /\ IF ret = "initial"
       THEN /\ pc' = "next"
            /\ UNCHANGED requires_recalculate
       ELSE /\ pc' = "draw"
            /\ requires_recalculate' = FALSE
    /\ ret' = "none"
    /\ scale' = NoScale
    /\ UNCHANGED <<clock, left_click_handler, right_click_handler, settings,
                   mouse_pos, event, img, log, nevents, turn_renders,
                   workers, iters,
                   writes, zoom32, trail>>

\* Variant: the flag is left set after the render of the loop.
RenderReturn_keeps_flag ==
    /\ pc = "render"
    /\ \A y \in Rows : img[y] # Blank
    /\ image' = img
    /\ pc' = IF ret = "initial" THEN "next" ELSE "draw"
    /\ ret' = "none"
    /\ scale' = NoScale
    /\ UNCHANGED <<clock, left_click_handler, right_click_handler, settings,
                   mouse_pos, requires_recalculate, event, img, log, nevents,
                   turn_renders, workers, iters,
                   writes, zoom32, trail>>

\* for_each has joined; the buffer is returned and turned into the texture.
\* After the call in the loop the flag is cleared.
RenderReturn ==
    /\ pc = "render"
    /\ \A y \in Rows : img[y] # Blank
    /\ image' = img
    /\ IF ret = "initial"
       THEN /\ pc' = "next"
            /\ UNCHANGED requires_recalculate
       ELSE /\ pc' = "draw"
            /\ requires_recalculate' = FALSE
    /\ ret' = "none"
    /\ scale' = NoScale
    /\ UNCHANGED <<clock, left_click_handler, right_click_handler, settings,
                   mouse_pos, event, img, log, nevents, turn_renders,
                   workers, iters,
                   writes, zoom32, trail>>

\* window.next() yields an event d ms after the previous reading of the
\* clock, and the cursor position is stored.
NextEvent ==
    /\ pc = "next"
    /\ nevents < MaxEvents
    /\ \E d \in Gaps, e \in Events :
          /\ clock' = clock + d
          /\ event' = e
          /\ mouse_pos' = IF e.kind = "cursor" THEN e.pos ELSE mouse_pos
          /\ log' = IF e.kind = "press"
                    THEN Append(log, [button |-> e.button, time |-> clock + d,
                                      dbl |-> FALSE])
                    ELSE log
    /\ nevents' = nevents + 1
    /\ turn_renders' = 0
    /\ pc' = "left"
    /\ UNCHANGED <<left_click_handler, right_click_handler, settings,
                   requires_recalculate, image, ret, img, scale, workers,
                   iters,
                   writes, zoom32, trail>>

\* window.next() yields None: the loop ends.
WindowClosed ==
    /\ pc = "next"
    /\ pc' = "done"
    /\ event' = NoEvent
    /\ UNCHANGED <<clock, left_click_handler, right_click_handler, settings,
                   mouse_pos, requires_recalculate, image, ret, img, scale,
                   log, nevents, turn_renders, workers, iters,
                   writes, zoom32, trail>>

MarkLast(l, r) ==
    IF r THEN [l EXCEPT ![Len(l)].dbl = TRUE] ELSE l

\* Variant: the left handler is also run while a render is in progress.
HandleLeft_during_render ==
    /\ pc \in {"left", "render"}
    /\ LET r == handle_if_button_pressed(left_click_handler, event, clock,
                                         settings, mouse_pos)
       IN  /\ left_click_handler' = r.handler
           /\ settings' = r.settings
           /\ requires_recalculate' = (requires_recalculate \/ r.result)
           /\ log' = MarkLast(log, r.result)
    /\ pc' = IF pc = "left" THEN "right" ELSE pc
    /\ UNCHANGED <<clock, right_click_handler, mouse_pos, image, event, ret,
                   img, scale, nevents, turn_renders, workers, iters,
                   writes, zoom32, trail>>

\* main.rs 90.
HandleLeft ==
    /\ pc = "left"
    /\ LET r == handle_if_button_pressed(left_click_handler, event, clock,
                                         settings, mouse_pos)
       IN  /\ left_click_handler' = r.handler
           /\ settings' = r.settings
           /\ requires_recalculate' = (requires_recalculate \/ r.result)
           /\ log' = MarkLast(log, r.result)
    /\ pc' = "right"
    /\ UNCHANGED <<clock, right_click_handler, mouse_pos, image, event, ret,
                   img, scale, nevents, turn_renders, workers, iters,
                   writes, zoom32, trail>>

\* main.rs 91.
HandleRight ==
    /\ pc = "right"
    /\ LET r == handle_if_button_pressed(right_click_handler, event, clock,
                                         settings, mouse_pos)
       IN  /\ right_click_handler' = r.handler
           /\ settings' = r.settings
           /\ requires_recalculate' = (requires_recalculate \/ r.result)
           /\ log' = MarkLast(log, r.result)
    /\ pc' = "recalc"
    /\ UNCHANGED <<clock, left_click_handler, mouse_pos, image, event, ret,
                   img, scale, nevents, turn_renders, workers, iters,
                   writes, zoom32, trail>>

\* Variant: the renderer is called in every turn.
Recalculate_every_turn ==
    /\ pc = "recalc"
    /\ BeginRender("recalculate")
    /\ UNCHANGED <<clock, left_click_handler, right_click_handler, settings,
                   mouse_pos, requires_recalculate, image, event, log,
                   nevents, workers, iters,
                   writes, zoom32, trail>>

\* main.rs 94-95: the flag is set, the renderer is called.
Recalculate ==
    /\ pc = "recalc"
    /\ requires_recalculate
    /\ BeginRender("recalculate")
    /\ UNCHANGED <<clock, left_click_handler, right_click_handler, settings,
                   mouse_pos, requires_recalculate, image, event, log,
                   nevents, workers, iters,
                   writes, zoom32, trail>>

\* main.rs 94: the flag is clear, the branch is skipped.
SkipRecalculate ==
    /\ pc = "recalc"
    /\ ~requires_recalculate
    /\ pc' = "draw"
    /\ UNCHANGED <<clock, left_click_handler, right_click_handler, settings,
                   mouse_pos, requires_recalculate, image, event, ret, img,
                   scale, log, nevents, turn_renders, workers, iters,
                   writes, zoom32, trail>>

\* main.rs 101-103: the current texture is painted.
Draw ==
    /\ pc = "draw"
    /\ pc' = "next"
    /\ UNCHANGED <<clock, left_click_handler, right_click_handler, settings,
                   mouse_pos, requires_recalculate, image, event, ret, img,
                   scale, log, nevents, turn_renders, workers, iters,
                   writes, zoom32, trail>>

Next ==
    \/ InitialRender
    \/ \E y \in Rows : RenderRow(y)
    \/ RenderReturn
    \/ NextEvent
    \/ WindowClosed
    \/ HandleLeft
    \/ HandleRight
    \/ Recalculate
    \/ SkipRecalculate
    \/ Draw

Spec == Init /\ [][Next]_vars

\* The event loop with the scheduling the render relies on: the closure of a
\* row is a loop bounded by max_iterations, the thread pool keeps running
\* rows while any is left, and for_each returns once all of them are done.
FairSpec ==
    /\ Spec
    /\ WF_vars(\E y \in Rows : RenderRow(y))
    /\ WF_vars(RenderReturn)

(***************************************************************************)
(* The renderer's coordinate mapping (main.rs 149-151): the plane point of *)
(* pixel (x, y) under the cached scales sc and the settings s.             *)
(***************************************************************************)
PlanePoint(sc, s, x, y) ==
    << RAdd(RMul(RSub(FromInt(x), sc.half_width), sc.width_scale),
            s.offset_x),
       RAdd(RMul(RSub(FromInt(y), sc.half_height), sc.height_scale),
            s.offset_y) >>

(***************************************************************************)
(* main.rs 153-164: the escape loop and the pixel write.                   *)
(***************************************************************************)
CAdd(a, b) == <<RAdd(a[1], b[1]), RAdd(a[2], b[2])>>
CMul(a, b) ==
    << RSub(RMul(a[1], b[1]), RMul(a[2], b[2])),
       RAdd(RMul(a[1], b[2]), RMul(a[2], b[1])) >>
norm_sqr(z) == RAdd(RMul(z[1], z[1]), RMul(z[2], z[2]))

\* Variant: the test of the loop is i <= max_iterations.
LoopTurn_one_more(st, c, n) ==
    IF st.i <= n /\ RLeq(norm_sqr(st.z), FromInt(4))
    THEN [z |-> CAdd(CMul(st.z, st.z), c), i |-> st.i + 1]
    ELSE st

\* Variant: the test of the loop is norm_sqr strictly below 4.
LoopTurn_strict(st, c, n) ==
    IF st.i < n /\ RLt(norm_sqr(st.z), FromInt(4))
    THEN [z |-> CAdd(CMul(st.z, st.z), c), i |-> st.i + 1]
    ELSE st

\* while i < max_iterations && z.norm_sqr() <= 4. { z = z * z + c; i += 1 }
\* One turn: the test, and the body if the test holds.  Once the test
\* fails z and i stay as they are, which is the loop having exited.
LoopTurn(st, c, n) ==
    IF st.i < n /\ RLeq(norm_sqr(st.z), FromInt(4))
    THEN [z |-> CAdd(CMul(st.z, st.z), c), i |-> st.i + 1]
    ELSE st

\* k turns of the loop, split in halves to keep the evaluation shallow;
\* the second half is skipped when the first half ended on a failed test.
RECURSIVE Turns(_, _, _, _)
Turns(st, c, n, k) ==
    IF k = 0 THEN st
    ELSE IF k = 1 THEN LoopTurn(st, c, n)
    ELSE LET h == k \div 2
             mid == Turns(st, c, n, h)
         IN  IF LoopTurn(mid, c, n) = mid
             THEN mid
             ELSE Turns(mid, c, n, k - h)

\* Variant: z starts as 0 (the textbook seeding).
EscapeCount_zero_seed(c, n) ==
    Turns([z |-> <<FromInt(0), FromInt(0)>>, i |-> 0], c, n, n + 1).i

\* c and z both start as (xi, yi), i as 0; the loop makes at most
\* max_iterations + 1 tests.
EscapeCount(c, n) == Turns([z |-> c, i |-> 0], c, n, n + 1).i

RECURSIVE IPow(_, _)
IPow(b, e) == IF e = 0 THEN 1 ELSE b * IPow(b, e - 1)

\* A real b^(p/q) with b a rational in [0, 1]: kept as base and exponent,
\* and as the rational itself where the power is one (powf(1, g) = 1,
\* powf(0, g) = 0 for g > 0, powf(b, 1) = b).
One == [base |-> FromInt(1), exp |-> FromInt(1)]
powf(b, g) ==
    IF b = FromInt(1) \/ b = FromInt(0) THEN [base |-> b, exp |-> FromInt(1)]
    ELSE [base |-> b, exp |-> g]

\* (i as f32 / max_iterations as f32).powf(gamma)
Intensity(i, n, gamma) == powf(Rat(i, n), gamma)

\* Variant: (r * 255.0).round() as u8, the nearest integer with halves
\* going up, i.e. the largest L in 0..255 with ((2L - 1)/510)^q <= base^p.
TimesAsU8_round(r) ==
    LET p == r.exp[1]
        q == r.exp[2]
        num == r.base[1]
        den == r.base[2]
        Fits(l) == \/ l = 0
                   \/ IPow(2 * l - 1, q) * IPow(den, p)
                          <= IPow(510, q) * IPow(num, p)
    IN  IF r.exp = FromInt(1)
        THEN IF (510 * num + den) \div (2 * den) > 255 THEN 255
             ELSE (510 * num + den) \div (2 * den)
        ELSE CHOOSE l \in 0 .. 255 : Fits(l) /\ (l < 255 => ~Fits(l + 1))

\* (r * 255.0) as u8: the product cut to its integer part, i.e. the
\* largest L in 0..255 with (L/255)^q <= base^p for exp = p/q.
TimesAsU8(r) ==
    LET p == r.exp[1]
        q == r.exp[2]
        num == r.base[1]
        den == r.base[2]
        Fits(l) == IPow(l, q) * IPow(den, p) <= IPow(255, q) * IPow(num, p)
    IN  IF r.exp = FromInt(1)
        THEN IF (255 * num) \div den > 255 THEN 255 ELSE (255 * num) \div den
        ELSE CHOOSE l \in 0 .. 255 : Fits(l) /\ (l < 255 => ~Fits(l + 1))

Lum(i, n, gamma) == TimesAsU8(Intensity(i, n, gamma))

\* The body of the inner loop for pixel (x, y): escape count and pixel.
Pixel(sc, s, x, y) ==
    LET c == PlanePoint(sc, s, x, y)
        i == EscapeCount(c, s.max_iterations)
        lum == Lum(i, s.max_iterations, s.gamma)
    IN  [i |-> i, rgba |-> <<lum, lum, lum, 255>>]

Cols(s) == 0 .. (s.width - 1)
BufRows(s) == 0 .. (s.height - 1)

\* What the closure of for_each computes for the row slice of index y.
RowOfPixels(sc, s, y) == [x \in Cols(s) |-> Pixel(sc, s, x, y)]

(***************************************************************************)
(* Runs of generate_mandelbrot_buffer on its own: the function is called   *)
(* twice on the same settings, each time with its own number of row        *)
(* workers; a worker takes a row slice that no worker has taken and writes *)
(* it.  The inputs are viewports whose pixels fall on integer plane        *)
(* points, where f32 and exact arithmetic coincide.                        *)
(***************************************************************************)
\* The escape counts of a row no worker has written yet.
PendingRow(s) == [x \in Cols(s) |-> -1]

GridInputs ==
    [width : {2, 4}, height : {2, 4}, max_iterations : {1, 2},
     zoom : {FromInt(1), Rat(1, 2)}, zoom_exp : {Rat(3, 2)},
     offset_x : {FromInt(-1), FromInt(0)}, offset_y : {FromInt(-1)},
     gamma : {FromInt(1)}]

\* Deeper caps, up to the cap of main, on a 4x2 frame of plane points 1
\* and 2 apart.
DeepInputs ==
    [width : {4}, height : {2}, max_iterations : {20, 300},
     zoom : {FromInt(1)}, zoom_exp : {Rat(3, 2)},
     offset_x : {FromInt(1)}, offset_y : {FromInt(0)},
     gamma : {Rat(1, 2)}]

\* The constants of main on a 2x2 frame whose pixels are 8 units apart, so
\* that every pixel either never escapes or escapes before the first turn
\* (gamma = 0.22 is then only ever applied to 0 and 1).
DefaultInputs ==
    [width : {2}, height : {2}, max_iterations : {300},
     zoom : {Rat(1, 4)}, zoom_exp : {Rat(3, 2)},
     offset_x : {FromInt(0), FromInt(-1), FromInt(3)},
     offset_y : {FromInt(0), FromInt(3)},
     gamma : {Rat(22, 100)}]

RenderInputs == GridInputs \cup DeepInputs \cup DefaultInputs

Idle == -1
WorkerIds == 1 .. MaxWorkers

RenderInit ==
    /\ clock = 0
    /\ left_click_handler =
           NewDoubleClickHandler("left_click_callback", "Left", 0)
    /\ right_click_handler =
           NewDoubleClickHandler("right_click_callback", "Right", 0)
    /\ settings \in RenderInputs
    /\ mouse_pos = <<0, 0>>
    /\ requires_recalculate = FALSE
    /\ image = "none"
    /\ event = NoEvent
    /\ pc = "call"
    /\ ret = "first"
    /\ img = <<>>
    /\ scale = NoScale
    /\ log = <<>>
    /\ nevents = 0
    /\ turn_renders = 0
    /\ workers = <<>>
    /\ iters = <<>>
    /\ writes = <<>>
    /\ zoom32 = F32One
    /\ trail = <<>>

\* main.rs 133-142: the zeroed buffer, the cached values, the worker pool.
GenStart ==
    /\ pc = "call"
    /\ img' = [y \in BufRows(settings) |->
                  [x \in Cols(settings) |-> <<0, 0, 0, 0>>]]
    /\ iters' = [y \in BufRows(settings) |-> PendingRow(settings)]
    /\ writes' = [y \in BufRows(settings) |-> 0]
    /\ scale' = CacheScale(settings)
    /\ \E n \in WorkerIds : workers' = [w \in 1 .. n |-> Idle]
    /\ pc' = "rows"
    /\ UNCHANGED <<clock, left_click_handler, right_click_handler, settings,
                   mouse_pos, requires_recalculate, image, event, ret, log,
                   nevents, turn_renders,
                   zoom32, trail>>

Taken == {workers[w] : w \in DOMAIN workers} \ {Idle}
Written == {y \in DOMAIN iters : iters[y] # PendingRow(settings)}

\* Variant: a row slice may be handed out while another worker holds it.
GenTake_overlap(w, y) ==
    /\ pc = "rows"
    /\ w \in DOMAIN workers
    /\ workers[w] = Idle
    /\ y \in DOMAIN iters
    /\ y \notin Written
    /\ workers' = [workers EXCEPT ![w] = y]
    /\ UNCHANGED <<clock, left_click_handler, right_click_handler, settings,
                   mouse_pos, requires_recalculate, image, event, pc, ret,
                   img, scale, log, nevents, turn_renders, iters,
                   writes, zoom32, trail>>

\* par_chunks_mut(columns * 4).enumerate(): a worker receives row slice y.
GenTake(w, y) ==
    /\ pc = "rows"
    /\ w \in DOMAIN workers
    /\ workers[w] = Idle
    /\ y \in DOMAIN iters
    /\ y \notin Taken \cup Written
    /\ workers' = [workers EXCEPT ![w] = y]
    /\ UNCHANGED <<clock, left_click_handler, right_click_handler, settings,
                   mouse_pos, requires_recalculate, image, event, pc, ret,
                   img, scale, log, nevents, turn_renders, iters,
                   writes, zoom32, trail>>

\* Variant: the row is computed for the number of rows finished so far
\* instead of the index of the slice.
GenWrite_shared_counter(w) ==
    /\ pc = "rows"
    /\ w \in DOMAIN workers
    /\ workers[w] # Idle
    /\ LET y == workers[w]
           n == Cardinality(Written)
           row == RowOfPixels(scale, settings, n)
       IN  /\ img' = [img EXCEPT ![y] = [x \in Cols(settings) |-> row[x].rgba]]
           /\ iters' = [iters EXCEPT ![y] = [x \in Cols(settings) |-> row[x].i]]
           /\ writes' = [writes EXCEPT ![y] = writes[y] + 1]
    /\ workers' = [workers EXCEPT ![w] = Idle]
    /\ UNCHANGED <<clock, left_click_handler, right_click_handler, settings,
                   mouse_pos, requires_recalculate, image, event, pc, ret,
                   scale, log, nevents, turn_renders,
                   zoom32, trail>>

\* main.rs 148-165: the closure of for_each fills its row slice.
GenWrite(w) ==
    /\ pc = "rows"
    /\ w \in DOMAIN workers
    /\ workers[w] # Idle
    /\ LET y == workers[w]
           row == RowOfPixels(scale, settings, y)
       IN  /\ img' = [img EXCEPT ![y] = [x \in Cols(settings) |-> row[x].rgba]]
           /\ iters' = [iters EXCEPT ![y] = [x \in Cols(settings) |-> row[x].i]]
           /\ writes' = [writes EXCEPT ![y] = writes[y] + 1]
    /\ workers' = [workers EXCEPT ![w] = Idle]
    /\ UNCHANGED <<clock, left_click_handler, right_click_handler, settings,
                   mouse_pos, requires_recalculate, image, event, pc, ret,
                   scale, log, nevents, turn_renders,
                   zoom32, trail>>

\* for_each has joined and img is returned.  The first buffer is kept in
\* image, with the size of the pool that computed it, and the function is
\* called again.
GenReturn ==
    /\ pc = "rows"
    /\ Written = DOMAIN iters
    /\ Taken = {}
    /\ IF ret = "first"
       THEN /\ image' = [buffer |-> img, pool |-> Len(workers)]
            /\ ret' = "second"
            /\ pc' = "call"
       ELSE /\ pc' = "returned"
            /\ UNCHANGED <<image, ret>>
    /\ UNCHANGED <<clock, left_click_handler, right_click_handler, settings,
                   mouse_pos, requires_recalculate, event, img, scale, log,
                   nevents, turn_renders, workers, iters,
                   writes, zoom32, trail>>

RenderNext ==
    \/ GenStart
    \/ \E w \in WorkerIds, y \in 0 .. 3 : GenTake(w, y)
    \/ \E w \in WorkerIds : GenWrite(w)
    \/ GenReturn

RenderSpec == RenderInit /\ [][RenderNext]_vars

(***************************************************************************)
(* Runs of gestures: every step is one call of a click callback, i.e. one  *)
(* recognized double-click, and follows settings.zoom in f32 (main.rs 57   *)
(* and 69).  The offsets take no part in the zoom update.                  *)
(***************************************************************************)
MaxGestures == 14

ZoomInit ==
    /\ clock = 0
    /\ left_click_handler =
           NewDoubleClickHandler("left_click_callback", "Left", 0)
    /\ right_click_handler =
           NewDoubleClickHandler("right_click_callback", "Right", 0)
    /\ settings = InitialSettings
    /\ mouse_pos = <<0, 0>>
    /\ requires_recalculate = FALSE
    /\ image = "none"
    /\ event = NoEvent
    /\ pc = "gestures"
    /\ ret = "none"
    /\ img = <<>>
    /\ scale = NoScale
    /\ log = <<>>
    /\ nevents = 0
    /\ turn_renders = 0
    /\ workers = <<>>
    /\ iters = <<>>
    /\ writes = <<>>
    /\ zoom32 = F32One
    /\ trail = <<>>

\* The last two gestures, each with the zoom it started from.
Remember(t, button, before) ==
    LET a == Append(t, [button |-> button, before |-> before])
    IN  IF Len(a) > 2 THEN Tail(a) ELSE a

\* settings.zoom = settings.zoom.clone() * settings.zoom_exp
ZoomLeft ==
    /\ pc = "gestures"
    /\ nevents < MaxGestures
    /\ zoom32' = F32Mul(zoom32, settings.zoom_exp)
    /\ trail' = Remember(trail, "Left", zoom32)
    /\ nevents' = nevents + 1
    /\ UNCHANGED <<clock, left_click_handler, right_click_handler, settings,
                   mouse_pos, requires_recalculate, image, event, pc, ret,
                   img, scale, log, turn_renders, workers, iters, writes>>

\* Variant: the right callback multiplies, as the left one does.
ZoomRight_multiplies ==
    /\ pc = "gestures"
    /\ nevents < MaxGestures
    /\ zoom32' = F32Mul(zoom32, settings.zoom_exp)
    /\ trail' = Remember(trail, "Right", zoom32)
    /\ nevents' = nevents + 1
    /\ UNCHANGED <<clock, left_click_handler, right_click_handler, settings,
                   mouse_pos, requires_recalculate, image, event, pc, ret,
                   img, scale, log, turn_renders, workers, iters, writes>>

\* settings.zoom = settings.zoom.clone() / settings.zoom_exp
ZoomRight ==
    /\ pc = "gestures"
    /\ nevents < MaxGestures
    /\ zoom32' = F32Div(zoom32, settings.zoom_exp)
    /\ trail' = Remember(trail, "Right", zoom32)
    /\ nevents' = nevents + 1
    /\ UNCHANGED <<clock, left_click_handler, right_click_handler, settings,
                   mouse_pos, requires_recalculate, image, event, pc, ret,
                   img, scale, log, turn_renders, workers, iters, writes>>

ZoomNext == ZoomLeft \/ ZoomRight

ZoomSpec == ZoomInit /\ [][ZoomNext]_vars

(***************************************************************************)
(* Reading the history of presses.                                         *)
(***************************************************************************)
Tracked(b) == b \in {"Left", "Right"}

\* The handlers have judged press i.
Handled(i) ==
    \/ i < Len(log)
    \/ pc \in {"recalc", "render", "draw", "next", "done"}

Earlier(i) == {j \in 1 .. (i - 1) : log[j].button = log[i].button}
HasPrev(i) == Earlier(i) # {}
Prev(i) == CHOOSE j \in Earlier(i) : \A k \in Earlier(i) : k <= j
Gap(i) == log[i].time - log[Prev(i)].time

\* Presses i, j, k are three presses in a row of one tracked button, each
\* within the timeout of the one before.
RapidTriple(i, j, k) ==
    /\ Tracked(log[k].button)
    /\ Handled(k)
    /\ HasPrev(k) /\ j = Prev(k)
    /\ HasPrev(j) /\ i = Prev(j)
    /\ Gap(j) < DefaultTimeout
    /\ Gap(k) < DefaultTimeout

Triples ==
    {t \in (DOMAIN log) \X (DOMAIN log) \X (DOMAIN log) :
        RapidTriple(t[1], t[2], t[3])}

\* The event being processed is a press that was recognized.
Recognized ==
    /\ event.kind = "press"
    /\ Len(log) > 0
    /\ log[Len(log)].dbl

(***************************************************************************)
(* C1: every press of a tracked button other than the button's first is    *)
(* recognized as a double-click iff the time since the previous press of   *)
(* the same button is strictly less than the timeout.                      *)
(***************************************************************************)
C1_GapDecides ==
    \A i \in DOMAIN log :
        (Tracked(log[i].button) /\ Handled(i) /\ HasPrev(i))
            => (log[i].dbl <=> Gap(i) < DefaultTimeout)

\* A gap equal to the timeout was rejected, and the next press was
\* recognized although the button's first press lies a timeout or more back.
C1_Witness ==
    \E i, j, k \in DOMAIN log :
        /\ Tracked(log[k].button) /\ Handled(k)
        /\ HasPrev(k) /\ j = Prev(k)
        /\ HasPrev(j) /\ i = Prev(j)
        /\ Gap(j) = DefaultTimeout /\ ~log[j].dbl
        /\ Gap(k) < DefaultTimeout /\ log[k].dbl
        /\ log[k].time - log[i].time >= DefaultTimeout

(***************************************************************************)
(* C2: the first press of a button is never recognized as a double-click.  *)
(***************************************************************************)
C2_FirstPressNeverDouble ==
    \A i \in DOMAIN log :
        (Tracked(log[i].button) /\ Handled(i) /\ ~HasPrev(i)) => ~log[i].dbl

(***************************************************************************)
(* C3 as stated: of three presses of one button, each within the timeout   *)
(* of the previous one, the second is recognized and the third is not.     *)
(***************************************************************************)
C3_ThirdStartsFresh ==
    \A t \in Triples : log[t[2]].dbl /\ ~log[t[3]].dbl

(***************************************************************************)
(* C3 as amended: of three presses of one button, each within the timeout  *)
(* of the previous one, the second and the third are both recognized.      *)
(***************************************************************************)
C3_ThirdPairsWithSecond ==
    \A t \in Triples : log[t[2]].dbl /\ log[t[3]].dbl

C3_Witness == Triples # {}

(***************************************************************************)
(* C4: on every recognized double-click the new offset is the plane point  *)
(* of the mouse pixel under the zoom and offset before the click, and the  *)
(* zoom is then multiplied (left) or divided (right) by zoom_exp.          *)
(***************************************************************************)
C4_Step ==
    (pc \in {"left", "right"} /\ log' # log) =>
        /\ <<settings'.offset_x, settings'.offset_y>> =
               PlanePoint(CacheScale(settings), settings,
                          mouse_pos[1], mouse_pos[2])
        /\ settings'.zoom =
               IF pc = "left"
               THEN RMul(settings.zoom, settings.zoom_exp)
               ELSE RDiv(settings.zoom, settings.zoom_exp)

C4_RecenterBeforeZoom == [][C4_Step]_vars

\* A left double-click off the screen centre on a viewport already zoomed.
C4_Witness ==
    /\ pc = "right"
    /\ Recognized
    /\ log[Len(log)].button = "Left"
    /\ mouse_pos = <<480, 360>>
    /\ settings.zoom = Rat(9, 4)

(***************************************************************************)
(* C5: when the loop pulls the next event the flag is clear; a recognized  *)
(* double-click sets the flag, exactly one render of the mutated viewport  *)
(* follows in the same turn, and the texture drawn is the frame of the     *)
(* current zoom and offset.                                                *)
(***************************************************************************)
C5_FlagNeverCarried ==
    /\ pc \in {"next", "draw", "done"} => ~requires_recalculate
    /\ turn_renders <= 1
    /\ (pc \in {"right", "recalc"} /\ Recognized) => requires_recalculate
    /\ (pc = "draw" /\ Recognized) => turn_renders = 1
    /\ pc = "draw" => image = FrameOf(settings)

C5_Witness ==
    /\ pc = "draw"
    /\ Recognized
    /\ turn_renders = 1
    /\ settings.zoom # FromInt(1)

(***************************************************************************)
(* C6 as stated: every call of generate_mandelbrot_buffer happens while    *)
(* the flag is set.                                                        *)
(***************************************************************************)
C6_RenderOnlyWhenDirty == pc = "render" => requires_recalculate

(***************************************************************************)
(* C6 as amended: every call of generate_mandelbrot_buffer made by the     *)
(* event loop happens while the flag is set; the one call before the loop  *)
(* happens with the flag clear and before any event.                       *)
(***************************************************************************)
C6_LoopRenderOnlyWhenDirty ==
    /\ (pc = "render" /\ ret = "recalculate") => requires_recalculate
    /\ (pc = "render" /\ ret = "initial") =>
           (~requires_recalculate /\ nevents = 0)
    /\ pc = "render" => ret \in {"initial", "recalculate"}

C6_Witness == pc = "render" /\ ret = "recalculate" /\ img # [y \in Rows |-> Blank]

(***************************************************************************)
(* C7: no viewport field changes between the start and the return of a     *)
(* render call, and the buffer returned has every row computed from the    *)
(* zoom and offsets the call started with.                                 *)
(***************************************************************************)
C7_Step ==
    pc = "render" =>
        /\ settings' = settings
        /\ scale = CacheScale(settings)
        /\ pc' # "render" => image' = FrameOf(settings)

C7_ViewportStableInRender == [][C7_Step]_vars

\* A render of a mutated viewport with one row written and one pending.
C7_Witness ==
    /\ pc = "render"
    /\ settings.zoom # FromInt(1)
    /\ \E y \in Rows : img[y] # Blank
    /\ \E y \in Rows : img[y] = Blank

(***************************************************************************)
(* Reading a row-render run.                                               *)
(***************************************************************************)
WrittenPixels == {p \in Written \X Cols(settings) : TRUE}
PointOf(p) == PlanePoint(CacheScale(settings), settings, p[2], p[1])
White == <<255, 255, 255, 255>>

\* The orbit of z under z <- z*z + c stays in |z|^2 <= 4 for ever: it
\* returns to a point it has visited without having left the disc.
RECURSIVE Stays(_, _, _)
Stays(z, c, seen) ==
    IF ~RLeq(norm_sqr(z), FromInt(4)) THEN FALSE
    ELSE IF z \in seen THEN TRUE
    ELSE Stays(CAdd(CMul(z, z), c), c, seen \cup {z})

NeverLeaves(c) == Stays(c, c, {})

(***************************************************************************)
(* C8: two runs of generate_mandelbrot_buffer on the same settings return  *)
(* identical buffers, whatever the number of workers and the order in      *)
(* which the rows are taken and written.                                   *)
(***************************************************************************)
C8_RunsAgree == pc = "returned" => img = image.buffer

\* Two finished runs with pools of different size on a frame whose rows
\* differ.
C8_Witness ==
    /\ pc = "returned"
    /\ image.pool # Len(workers)
    /\ settings.height = 4
    /\ \E y1, y2 \in DOMAIN img : img[y1] # img[y2]

(***************************************************************************)
(* C9: for every plane point and every max_iterations N >= 1 the count i   *)
(* left by the escape loop satisfies 0 <= i <= N, and i = N gives the      *)
(* intensity 1.0.                                                          *)
(***************************************************************************)
C9_CountWithinCap ==
    \A p \in WrittenPixels :
        LET i == iters[p[1]][p[2]]
            n == settings.max_iterations
        IN  /\ i \in 0 .. n
            /\ i = n => Intensity(i, n, settings.gamma) = One

\* A frame under the cap of 300 with a pixel that ran to the cap and a
\* pixel that escaped after some turns.
C9_Witness ==
    /\ settings.max_iterations = 300
    /\ \E p \in WrittenPixels : iters[p[1]][p[2]] = 300
    /\ \E p \in WrittenPixels :
          iters[p[1]][p[2]] > 0 /\ iters[p[1]][p[2]] < 300

(***************************************************************************)
(* C10: a plane point whose orbit never leaves |z|^2 <= 4 reaches the      *)
(* count max_iterations, the intensity 1.0 and the pixel                   *)
(* (255, 255, 255, 255).                                                   *)
(***************************************************************************)
C10_InteriorIsWhite ==
    \A p \in WrittenPixels :
        NeverLeaves(PointOf(p)) =>
            /\ iters[p[1]][p[2]] = settings.max_iterations
            /\ Intensity(iters[p[1]][p[2]], settings.max_iterations,
                         settings.gamma) = One
            /\ img[p[1]][p[2]] = White

\* The plane point (0, 0) rendered with the constants of main.
C10_Witness ==
    /\ settings.max_iterations = 300
    /\ settings.gamma = Rat(22, 100)
    /\ \E p \in WrittenPixels :
          /\ PointOf(p) = <<FromInt(0), FromInt(0)>>
          /\ iters[p[1]][p[2]] = 300
          /\ img[p[1]][p[2]] = White

(***************************************************************************)
(* C11: a plane point c with |c|^2 > 4 fails the loop test before any      *)
(* iteration: count 0, intensity 0.0, pixel (0, 0, 0, 255); and count 0    *)
(* occurs only for points with |c|^2 > 4.                                  *)
(***************************************************************************)
Black == <<0, 0, 0, 255>>
Zero == [base |-> FromInt(0), exp |-> FromInt(1)]

C11_OutsideIsBlack ==
    \A p \in WrittenPixels :
        LET i == iters[p[1]][p[2]]
            far == RLt(FromInt(4), norm_sqr(PointOf(p)))
        IN  /\ far => /\ i = 0
                      /\ Intensity(i, settings.max_iterations,
                                   settings.gamma) = Zero
                      /\ img[p[1]][p[2]] = Black
            /\ i = 0 => far

\* The plane point (3, 3) rendered with the constants of main.
C11_Witness ==
    /\ settings.max_iterations = 300
    /\ settings.gamma = Rat(22, 100)
    /\ \E p \in WrittenPixels :
          /\ PointOf(p) = <<FromInt(3), FromInt(3)>>
          /\ iters[p[1]][p[2]] = 0
          /\ img[p[1]][p[2]] = Black

(***************************************************************************)
(* Reading a run of gestures.                                              *)
(***************************************************************************)
\* The last two gestures were a right and a left double-click, either order.
RoundTrip ==
    /\ Len(trail) = 2
    /\ {trail[1].button, trail[2].button} = {"Left", "Right"}

\* The distance of f32 values a and b is at most one unit in the last
\* place of b.
WithinOneUlp(a, b) ==
    LET lo == IF a.e < b.e THEN a.e ELSE b.e
        d == a.m * TwoTo(a.e - lo) - b.m * TwoTo(b.e - lo)
    IN  Abs(d) <= TwoTo(b.e - lo)

(***************************************************************************)
(* C12 as stated: a right double-click followed by a left double-click, or *)
(* a left followed by a right, returns zoom to the value it had before,    *)
(* for every starting zoom reachable from 1.0.                             *)
(***************************************************************************)
C12_ZoomRestored == RoundTrip => zoom32 = trail[1].before

(***************************************************************************)
(* C12 as amended: the two gestures return zoom to within one unit in the  *)
(* last place of the value it had before.                                  *)
(***************************************************************************)
C12_ZoomRestoredToOneUlp == RoundTrip => WithinOneUlp(zoom32, trail[1].before)

\* A right then a left double-click that ended next to the starting zoom.
C12_Witness ==
    /\ RoundTrip
    /\ trail[1].button = "Right"
    /\ zoom32 # trail[1].before

(***************************************************************************)
(* Reading a step of the event loop.                                       *)
(***************************************************************************)
\* The step is the handler call of main.rs 90 or 91 and the handler's
\* closure runs in it: the event is a press of the handler's own button
\* less than the timeout after that button's last_click.
ZoomStep(button) ==
    /\ pc = (IF button = "Left" THEN "left" ELSE "right")
    /\ event.kind = "press"
    /\ event.button = button
    /\ LET h == IF button = "Left"
                THEN left_click_handler
                ELSE right_click_handler
       IN  clock - h.last_click < h.click_timeout

Centre == <<settings.width \div 2, settings.height \div 2>>

(***************************************************************************)
(* C13: a left double-click with the mouse at the screen-centre pixel      *)
(* (width/2, height/2) leaves offset_x and offset_y unchanged and sets     *)
(* zoom to zoom * zoom_exp, for any current zoom and offset.               *)
(***************************************************************************)
C13_Step ==
    (ZoomStep("Left") /\ mouse_pos = Centre) =>
        /\ settings'.offset_x = settings.offset_x
        /\ settings'.offset_y = settings.offset_y
        /\ settings'.zoom = RMul(settings.zoom, settings.zoom_exp)
        /\ settings'.zoom # settings.zoom

C13_CentreClickKeepsOffset == [][C13_Step]_vars

\* A left double-click at (320, 240) was handled on a viewport that had
\* already been moved and zoomed.
C13_Witness ==
    /\ pc = "right"
    /\ Recognized
    /\ log[Len(log)].button = "Left"
    /\ mouse_pos = <<320, 240>>
    /\ settings.offset_x # FromInt(0)
    /\ settings.zoom = Rat(9, 4)

(***************************************************************************)
(* C14: the viewport changes only on a recognized double-click and then    *)
(* only in zoom, offset_x and offset_y; width, height, max_iterations,     *)
(* zoom_exp and gamma keep their startup values.                           *)
(***************************************************************************)
Fixed(s) == <<s.width, s.height, s.max_iterations, s.zoom_exp, s.gamma>>

C14_Step ==
    /\ Fixed(settings') = Fixed(InitialSettings)
    /\ settings' # settings => (ZoomStep("Left") \/ ZoomStep("Right"))

C14_ViewportFrame == [][C14_Step]_vars

\* A cursor move, a press that was not recognized, a press of an untracked
\* button and a render have happened, and the viewport is as it started.
C14_Witness ==
    /\ pc = "draw"
    /\ event.kind = "press"
    /\ event.button = "Middle"
    /\ mouse_pos # <<0, 0>>
    /\ \E i \in DOMAIN log : Tracked(log[i].button) /\ ~log[i].dbl
    /\ image = FrameOf(InitialSettings)
    /\ settings = InitialSettings

(***************************************************************************)
(* C15: a render that starts eventually returns; it returns only when      *)
(* every row is done, so the buffer given to the texture is never partly   *)
(* written; and no event is taken from the window while a render runs.     *)
(***************************************************************************)
Complete(buf) == \A y \in Rows : buf[y] # Blank

C15_Step ==
    /\ pc = "render" => /\ nevents' = nevents
                        /\ event' = event
                        /\ log' = log
    /\ (pc = "render" /\ pc' # "render") => Complete(img) /\ image' = img

C15_RenderRunsToCompletion ==
    /\ (pc = "render") ~> (pc # "render")
    /\ [][C15_Step]_vars
    /\ []((pc # "start" /\ ~(pc = "render" /\ ret = "initial"))
              => Complete(image))

\* A render started by the loop has returned with every row written.
C15_Witness ==
    /\ pc = "draw"
    /\ turn_renders = 1
    /\ nevents = 2
    /\ Complete(image)
    /\ image = FrameOf(settings)

(***************************************************************************)
(* C16: the luminance of a pixel is the intensity times 255 rounded to the *)
(* nearest integer, and the pixel is (lum, lum, lum, 255).                 *)
(***************************************************************************)
IntensityAt(p) ==
    Intensity(iters[p[1]][p[2]], settings.max_iterations, settings.gamma)

Gray(l) == <<l, l, l, 255>>

\* As stated: lum = round(intensity * 255).
C16_LumRounded ==
    \A p \in WrittenPixels : img[p[1]][p[2]] = Gray(TimesAsU8_round(IntensityAt(p)))

\* As the code has it: lum is intensity * 255 cut to its integer part,
\* lum <= intensity * 255 < lum + 1, so it is the rounded value or one
\* below it, and the pixel is (lum, lum, lum, 255).
C16_LumTruncated ==
    \A p \in WrittenPixels :
        LET r == IntensityAt(p)
            pw == r.exp[1]
            q == r.exp[2]
            num == r.base[1]
            den == r.base[2]
            nearest == TimesAsU8_round(r)
        IN  \E l \in 0 .. 255 :
               /\ img[p[1]][p[2]] = Gray(l)
               /\ IPow(l, q) * IPow(den, pw) <= IPow(255, q) * IPow(num, pw)
               /\ IPow(255, q) * IPow(num, pw) < IPow(l + 1, q) * IPow(den, pw)
               /\ l \in {nearest, nearest - 1}

\* Count 1 of cap 2 with gamma 1: 0.5 * 255 = 127.5 is stored as 127.
C16_Witness ==
    \E p \in WrittenPixels :
        /\ settings.max_iterations = 2
        /\ settings.gamma = FromInt(1)
        /\ iters[p[1]][p[2]] = 1
        /\ TimesAsU8_round(IntensityAt(p)) = 128
        /\ img[p[1]][p[2]] = Gray(127)

(***************************************************************************)
(* C17: the row slices the workers hold are pairwise disjoint and lie in   *)
(* the buffer; a row is filled at most once and, when the call returns,    *)
(* every row exactly once, so all width*height pixels are written once;    *)
(* the value at row y, column x is the one computed for pixel (x, y).      *)
(***************************************************************************)
Started == pc # "call" \/ ret = "second"
Returned == pc = "returned" \/ (pc = "call" /\ ret = "second")

C17_SlicesDisjointAndCover ==
    /\ \A w1, w2 \in DOMAIN workers :
          (w1 # w2 /\ workers[w1] # Idle) => workers[w1] # workers[w2]
    /\ Started =>
          /\ Taken \subseteq BufRows(settings)
          /\ DOMAIN img = BufRows(settings)
          /\ \A y \in BufRows(settings) :
                /\ DOMAIN img[y] = Cols(settings)
                /\ writes[y] <= 1
                /\ writes[y] = 1 <=> y \in Written
                /\ y \in Taken => writes[y] = 0
                /\ \A x \in Cols(settings) :
                      img[y][x] =
                          IF writes[y] = 1
                          THEN Pixel(CacheScale(settings), settings, x, y).rgba
                          ELSE <<0, 0, 0, 0>>
    /\ Returned =>
          /\ \A y \in BufRows(settings) : writes[y] = 1
          /\ Cardinality(WrittenPixels) = settings.width * settings.height

\* Two workers hold two different rows of a four-row buffer while another
\* row is already filled.
C17_Witness ==
    /\ pc = "rows"
    /\ settings.height = 4
    /\ Cardinality(Taken) = 2
    /\ \E y \in BufRows(settings) : writes[y] = 1

(***************************************************************************)
(* C18: in exact arithmetic mouse_to_screen maps a pixel to the plane      *)
(* point the renderer evaluates for that pixel, for every viewport; so     *)
(* after a double-click at a pixel, the point drawn there is the point     *)
(* drawn at the centre pixel (width/2, height/2) of the next frame.        *)
(***************************************************************************)
ProbePixels ==
    MousePositions \cup {<<0, 0>>, <<WIDTH - 1, HEIGHT - 1>>, <<1, 7>>,
                         <<WIDTH - 1, 0>>}

RenderPoint(s, p) == PlanePoint(CacheScale(s), s, p[1], p[2])

Agree(s) == \A p \in ProbePixels : mouse_to_screen(p, s) = RenderPoint(s, p)

C18_Step ==
    /\ (ZoomStep("Left") \/ ZoomStep("Right")) =>
          RenderPoint(settings', Centre) = RenderPoint(settings, mouse_pos)
    /\ settings' # settings => Agree(settings')

\* The two mappings agree on the startup viewport and on every viewport a
\* step produces, hence on every viewport reached.
C18_MappingsAgree ==
    /\ Agree(settings)
    /\ [][C18_Step]_vars

\* A right double-click off the centre, on a viewport already zoomed, has
\* moved the viewport: the centre pixel now shows the new offset.
C18_Witness ==
    /\ pc = "recalc"
    /\ Recognized
    /\ log[Len(log)].button = "Right"
    /\ mouse_pos = <<480, 360>>
    /\ settings.zoom = FromInt(1)
    /\ settings.offset_x # FromInt(0)
    /\ RenderPoint(settings, Centre) = <<settings.offset_x, settings.offset_y>>

(***************************************************************************)
(* C19: the two detectors are independent.  A press of one button never    *)
(* changes the other handler's last_click nor runs the other handler's     *)
(* action, events that are not presses change neither handler, at most one *)
(* zoom action runs per event, and whether a press is recognized depends   *)
(* only on the presses of its own button: two presses of a button within   *)
(* the timeout are recognized whatever was pressed in between.             *)
(***************************************************************************)
OwnPress(button) == event.kind = "press" /\ event.button = button

\* Press j has been through the handler of its button.
Seen(j) ==
    \/ j < Len(log)
    \/ event.kind # "press"
    \/ pc \notin {"left", "right"}
    \/ (pc = "right" /\ log[j].button = "Left")

\* The time of the last press of the button its handler has seen, or the
\* time the handler was constructed.
OwnLast(button) ==
    LET own == {j \in DOMAIN log : log[j].button = button /\ Seen(j)}
    IN  IF own = {} THEN 0
        ELSE log[CHOOSE j \in own : \A k \in own : k <= j].time

C19_Step ==
    /\ left_click_handler' # left_click_handler
          => pc = "left" /\ OwnPress("Left")
    /\ right_click_handler' # right_click_handler
          => pc = "right" /\ OwnPress("Right")
    /\ settings' # settings =>
          \/ /\ ZoomStep("Left")
             /\ settings' = left_click_callback(settings, mouse_pos)
          \/ /\ ZoomStep("Right")
             /\ settings' = right_click_callback(settings, mouse_pos)
    /\ (pc = "right" /\ Recognized) => settings' = settings

C19_OwnHistory ==
    /\ left_click_handler.last_click = OwnLast("Left")
    /\ right_click_handler.last_click = OwnLast("Right")
    /\ \A i, k \in DOMAIN log :
          (/\ i < k
           /\ Tracked(log[k].button)
           /\ log[i].button = log[k].button
           /\ Seen(k)
           /\ log[k].time - log[i].time < DefaultTimeout)
              => log[k].dbl

C19_DetectorsIndependent ==
    /\ [][C19_Step]_vars
    /\ []C19_OwnHistory

\* Left, right, left within the timeout: the second left press is
\* recognized, and the right press in between was judged on its own.
C19_Witness ==
    /\ pc = "right"
    /\ Len(log) >= 3
    /\ LET k == Len(log)
       IN  /\ log[k].button = "Left" /\ log[k].dbl
           /\ log[k - 1].button = "Right"
           /\ log[k - 2].button = "Left"
           /\ log[k].time - log[k - 2].time < DefaultTimeout
           /\ left_click_handler.last_click = log[k].time
           /\ right_click_handler.last_click = log[k - 1].time

====
